---- MODULE Spec2Model ----
(***************************************************************************)
(* A model of LSPManager (src/src/lsp-manager.ts): the registry of         *)
(* language-server sessions, their subprocesses and JSON-RPC connections,  *)
(* the per-session document map, and the asynchronous operations on them.  *)
(*                                                                         *)
(* Node runs the manager on one thread.  A handler runs without            *)
(* interruption up to its next await; a settled promise queues the         *)
(* continuation of the task that awaits it as a microtask, and every       *)
(* queued microtask runs before the next event (a tool call, a response    *)
(* or an event of a subprocess) is handled.  The model keeps the queue of  *)
(* microtasks in `micro`; every event is guarded by micro = << >>.         *)
(*                                                                         *)
(* The JSON-RPC connection (vscode-jsonrpc) is modelled by what the        *)
(* manager relies on: sendRequest and sendNotification throw when the      *)
(* connection is closed or disposed, request identifiers are assigned      *)
(* from a counter, a response settles the request that carries its         *)
(* identifier, the close of the stream rejects nothing, and dispose()      *)
(* rejects every request still pending.                                    *)
(***************************************************************************)
EXTENDS Integers, Sequences, FiniteSets, TLC

\* ------------------------------------------------------------------ bounds
MaxSessions == 2     \* identifiers that startServer can issue
MaxCalls == 3        \* tool calls of one run of Spec
MaxDocCalls == 5     \* tool calls of one run of DocSpec
MaxPending == 2      \* intelligence requests in flight on one connection
MaxHandCalls == 3    \* tool calls of one run of HandSpec
MaxReqCalls == 3     \* tool calls of one run of ReqSpec
MaxCmdCalls == 2     \* tool calls of one run of CmdSpec
MaxSyncCalls == 4    \* tool calls of one run of SyncSpec
MaxGoneCalls == 3    \* tool calls of one run of GoneSpec
MaxEditCalls == 3    \* tool calls of one run of EditSpec
MaxTwoCalls == 4     \* tool calls of one run of TwoSpec
MaxSigCalls == 3     \* tool calls and signals of one run of SigSpec

Ids == 1..MaxSessions
Uris == {"file:///a.ts"}
Contents == {"x", "y"}
LanguageIds == {"typescript"}
\* the language ids of the open-document calls of SyncSpec
SyncLanguageIds == {"typescript", "javascript"}
Workspaces == {"file:///tmp/proj"}

\* the command of each entry of languageServerCommands
languageServerCommands ==
  [typescript |-> "typescript-language-server", python |-> "pylsp",
   rust |-> "rust-analyzer", go |-> "gopls", java |-> "jdtls", cpp |-> "clangd"]
\* the args of each entry of languageServerCommands
languageServerArgs ==
  [typescript |-> <<"--stdio">>, python |-> << >>, rust |-> << >>,
   go |-> << >>, java |-> << >>, cpp |-> << >>]
Undefined == "undefined"
\* a lookup that falls back to the language name as the command
serverConfigFallback(language) ==
  IF language \in DOMAIN languageServerCommands
  THEN languageServerCommands[language]
  ELSE language

\* this.languageServerCommands.get(language)
serverConfig(language) ==
  IF language \in DOMAIN languageServerCommands
  THEN languageServerCommands[language]
  ELSE Undefined

\* serverConfig.args, the empty list for a language with no entry
serverConfigArgs(language) ==
  IF language \in DOMAIN languageServerArgs
  THEN languageServerArgs[language]
  ELSE << >>

\* the language names and the custom commands that callers pass
LanguageInputs == {"typescript", "cobol"}
NoCommand == "none"
CommandInputs == {NoCommand}
\* the customArgs argument: not given, or given with a list of arguments
NoArgs == [given |-> FALSE, value |-> << >>]
ArgsInputs ==
  {NoArgs, [given |-> TRUE, value |-> << >>],
   [given |-> TRUE, value |-> <<"--stdio", "--log-level=info">>]}
\* the custom commands of start-session calls that pass one: the empty string
\* and the path of a server
CustomCommandInputs == {NoCommand, "", "/path/to/custom-lsp"}

\* the seven operations that send a request, by the method they send
RequestOps == {"textDocument/completion", "textDocument/hover",
               "textDocument/definition", "textDocument/references",
               "textDocument/rename", "textDocument/formatting",
               "textDocument/documentSymbol"}
\* the operations a caller issues on a registered session
IntelInputs == {"textDocument/completion"}
DocOps == {"open", "update", "close"}

VARIABLES
  servers,    \* this.servers: the LSPServerInfo of each registered identifier
  proc,       \* the child process of each identifier
  conn,       \* the state of each MessageConnection
  pending,    \* the requests awaiting a response, per connection
  nextRid,    \* the next request identifier of each connection
  writes,     \* the tasks that await the write of a notification
  micro,      \* the queue of microtasks (continuations ready to run)
  allLeft,    \* the stopServer promises stopAllServers still awaits
  allKeys,    \* the keys the last stopAllServers call mapped over
  nextId,     \* the next identifier uuidv4 yields
  budget,     \* the tool calls the run may still issue
  unhandled,  \* TRUE once a promise was rejected with no handler
  seen,       \* the version of each document as the subprocess was told
  call,       \* the tool call issued, or the notification received, in this step
  ret,        \* what this step returned to the caller of a tool call
  sent        \* the messages this step wrote to subprocesses, in order

vars == <<servers, proc, conn, pending, nextRid, writes, micro, allLeft,
          allKeys, nextId, budget, unhandled, seen, call, ret, sent>>

\* no entry of a documents map (version 0 is never a version of a document)
NoDoc == [version |-> 0, languageId |-> "", text |-> ""]

\* a delete that clears the map
DeleteAll(s) == << >>

\* this.servers.delete(s)
Delete(s) == [x \in (DOMAIN servers) \ {s} |-> servers[x]]
\* a set that registers nothing
SetIgnored(s, serverInfo) == servers

\* this.servers.set(s, serverInfo)
Set(s, serverInfo) ==
  [x \in (DOMAIN servers) \cup {s} |-> IF x = s THEN serverInfo ELSE servers[x]]

NoCall == [op |-> "none", sid |-> 0, uri |-> "", language |-> "", command |-> ""]
NoRet == [op |-> "none", sid |-> 0, outcome |-> "none"]

Msg(s, method, rid, uri, version, text) ==
  [to |-> s, method |-> method, rid |-> rid, uri |-> uri, version |-> version,
   text |-> text]

Init ==
  /\ servers = << >>
  /\ proc = [s \in Ids |-> "unspawned"]
  /\ conn = [s \in Ids |-> "none"]
  /\ pending = [s \in Ids |-> {}]
  /\ nextRid = [s \in Ids |-> 0]
  /\ writes = {}
  /\ micro = << >>
  /\ allLeft = {}
  /\ allKeys = {}
  /\ nextId = 1
  /\ budget = MaxCalls
  /\ unhandled = FALSE
  /\ seen = [s \in Ids |-> [u \in Uris |-> 0]]
  /\ call = NoCall
  /\ ret = NoRet
  /\ sent = << >>

\* ------------------------------------------------------------- connection
\* sendRequest and sendNotification throw unless the connection is listening
CanSend(s) == conn[s] = "listening"

Request(rid, method, k, parent) ==
  [rid |-> rid, method |-> method, k |-> k, parent |-> parent]

\* a connection that hands every response to the oldest pending request
ContinuationFirst(s, r, ok) ==
  LET first == CHOOSE x \in pending[s] : \A y \in pending[s] : x.rid <= y.rid
  IN [k |-> first.k, sid |-> s, parent |-> first.parent, op |-> first.method,
      ok |-> ok]

\* the microtask that continues the task awaiting request r of connection s
Continuation(s, r, ok) ==
  [k |-> r.k, sid |-> s, parent |-> r.parent, op |-> r.method, ok |-> ok]

RECURSIVE ByRid(_)
ByRid(S) ==
  IF S = {} THEN << >>
  ELSE LET r == CHOOSE x \in S : \A y \in S : x.rid <= y.rid
       IN <<r>> \o ByRid(S \ {r})

\* dispose(): every pending request is rejected, in the order it was sent
Rejections(s) ==
  LET q == ByRid(pending[s])
  IN [i \in 1..Len(q) |-> Continuation(s, q[i], FALSE)]

RECURSIVE Ascending(_)
Ascending(S) ==
  IF S = {} THEN << >>
  ELSE LET m == CHOOSE x \in S : \A y \in S : x <= y
       IN <<m>> \o Ascending(S \ {m})

\* ------------------------------------------------------------- stopServer

\* a stopServer that does not await the shutdown request: the exit
\* notification is written right after it
StopPrefixEager(s, parent, mq) ==
  IF CanSend(s)
  THEN /\ pending' = [pending EXCEPT ![s] =
                        @ \cup {Request(nextRid[s], "shutdown", "stop", parent)}]
       /\ nextRid' = [nextRid EXCEPT ![s] = @ + 1]
       /\ sent' = <<Msg(s, "shutdown", nextRid[s], "", 0, ""),
                    Msg(s, "exit", 0, "", 0, "")>>
       /\ micro' = mq
  ELSE /\ pending' = pending
       /\ nextRid' = nextRid
       /\ sent' = << >>
       /\ micro' = Append(mq, [k |-> "stop", sid |-> s, parent |-> parent,
                               op |-> "shutdown", ok |-> FALSE])

\* stopServer up to its first await, for a registered s: the shutdown request
\* is sent, or sendRequest throws and the catch block runs as a microtask.
\* mq is the queue of microtasks that remain to run.
StopPrefix(s, parent, mq) ==
  IF CanSend(s)
  THEN /\ pending' = [pending EXCEPT ![s] =
                        @ \cup {Request(nextRid[s], "shutdown", "stop", parent)}]
       /\ nextRid' = [nextRid EXCEPT ![s] = @ + 1]
       /\ sent' = <<Msg(s, "shutdown", nextRid[s], "", 0, "")>>
       /\ micro' = mq
  ELSE /\ pending' = pending
       /\ nextRid' = nextRid
       /\ sent' = << >>
       /\ micro' = Append(mq, [k |-> "stop", sid |-> s, parent |-> parent,
                               op |-> "shutdown", ok |-> FALSE])

\* process.kill()
Kill(s) ==
  [proc EXCEPT ![s] = IF @ = "running" THEN "killed" ELSE @]

\* the end of stopServer: connection.dispose(), process.kill(),
\* servers.delete(serverId), and the promise of the call resolves
Teardown(s, parent, mq) ==
  /\ conn' = [conn EXCEPT ![s] = "disposed"]
  /\ pending' = [pending EXCEPT ![s] = {}]
  /\ micro' = mq \o (IF conn[s] = "disposed" THEN << >> ELSE Rejections(s))
  /\ proc' = Kill(s)
  /\ servers' = Delete(s)
  /\ allLeft' = IF parent = "all" THEN allLeft \ {s} ELSE allLeft
  /\ allKeys' = allKeys
  /\ ret' = IF parent = "call"
            THEN [op |-> "stop", sid |-> s, outcome |-> "ok"]
            ELSE IF parent = "all" /\ allLeft \ {s} = {}
            THEN [op |-> "stopAll", sid |-> 0, outcome |-> "ok"]
            ELSE NoRet

\* a stopServer with no try/catch: the failure of the shutdown request rejects
\* the promise of stopServer, and nothing is disposed, killed or deleted
ShutdownFailedRethrow(s, parent, mq) ==
  /\ UNCHANGED <<conn, pending, proc, servers, allKeys>>
  /\ micro' = mq
  /\ allLeft' = IF parent = "all" THEN allLeft \ {s} ELSE allLeft
  /\ ret' = IF parent = "call"
            THEN [op |-> "stop", sid |-> s, outcome |-> "ShutdownFailed"]
            ELSE IF parent = "all" /\ allLeft \ {s} = {}
            THEN [op |-> "stopAll", sid |-> 0, outcome |-> "ok"]
            ELSE NoRet

\* the catch block of stopServer: the error is logged, and stopServer goes on
\* to dispose, kill and delete
ShutdownFailed(s, parent, mq) == Teardown(s, parent, mq)

\* the catch block of startServer: this.stopServer(serverId) is called and
\* not awaited, then the error is thrown to the caller
StartCatch(s, mq) ==
  /\ IF s \in DOMAIN servers
     THEN StopPrefix(s, "orphan", mq) /\ unhandled' = unhandled
     ELSE /\ pending' = pending
          /\ nextRid' = nextRid
          /\ sent' = << >>
          /\ micro' = mq
          /\ unhandled' = TRUE
  /\ ret' = [op |-> "start", sid |-> s, outcome |-> "InitializationFailed"]

\* ------------------------------------------------------------ startServer
\* a serverInfo that is born initialized
serverInfoInitializedTrue == TRUE

\* serverInfo.initialized as startServer registers the session
serverInfoInitialized == FALSE

\* a test that takes every string that was given, the empty one too, as a
\* command
TruthyDefined(customCommand) == customCommand # NoCommand

\* if (customCommand): the argument was given and is not the empty string
Truthy(customCommand) == customCommand # NoCommand /\ customCommand # ""

\* customArgs || []
ArgsOrEmpty(customArgs) == IF customArgs.given THEN customArgs.value ELSE << >>

\* a generator that hands out again the least identifier that is not
\* registered
uuidv4Recycled ==
  CHOOSE x \in Ids \ DOMAIN servers : \A y \in Ids \ DOMAIN servers : x <= y

\* uuidv4(): an identifier that was never handed out
uuidv4 == nextId

startServer(language, workspaceUri, customCommand, customArgs, spawnOk) ==
  /\ micro = << >>
  /\ budget > 0
  /\ budget' = budget - 1
  /\ call' = [op |-> "start", sid |-> 0, uri |-> workspaceUri,
              language |-> language, command |-> customCommand,
              args |-> customArgs]
  /\ IF ~Truthy(customCommand) /\ serverConfig(language) = Undefined
     THEN /\ ret' = [op |-> "start", sid |-> 0, outcome |-> "UnsupportedLanguage"]
          /\ sent' = << >>
          /\ UNCHANGED <<servers, proc, conn, pending, nextRid, writes, micro,
                         allLeft, allKeys, nextId, unhandled, seen>>
     ELSE /\ nextId <= MaxSessions
          /\ LET serverId == uuidv4
                 command == IF Truthy(customCommand) THEN customCommand
                            ELSE serverConfig(language)
                 args == IF Truthy(customCommand) THEN ArgsOrEmpty(customArgs)
                         ELSE serverConfigArgs(language)
             IN /\ nextId' = nextId + 1
                /\ proc' = [proc EXCEPT ![serverId] =
                              IF spawnOk THEN "running" ELSE "spawnfail"]
                /\ conn' = [conn EXCEPT ![serverId] = "listening"]
                /\ servers' = Set(serverId,
                              [language |-> language, workspaceUri |-> workspaceUri,
                               command |-> command, args |-> args,
                               initialized |-> serverInfoInitialized,
                               documents |-> [u \in Uris |-> NoDoc]])
                /\ pending' = [pending EXCEPT ![serverId] =
                                 {Request(0, "initialize", "start", "none")}]
                /\ nextRid' = [nextRid EXCEPT ![serverId] = 1]
                /\ sent' = <<Msg(serverId, "initialize", 0, "", 0, "")>>
                /\ ret' = NoRet
                /\ UNCHANGED <<writes, micro, allLeft, allKeys,
                               unhandled, seen>>

\* the initialize request has settled
startServerContinue ==
  /\ budget' = budget
  /\ micro # << >>
  /\ Head(micro).k = "start"
  /\ LET m == Head(micro)
         s == m.sid
     IN /\ call' = NoCall
        /\ IF m.ok /\ CanSend(s)
           THEN /\ sent' = <<Msg(s, "initialized", 0, "", 0, "")>>
                /\ writes' = writes \cup {[k |-> "start", sid |-> s, parent |-> "none"]}
                /\ micro' = Tail(micro)
                /\ ret' = NoRet
                /\ UNCHANGED <<pending, nextRid, unhandled>>
           ELSE /\ StartCatch(s, Tail(micro))
                /\ writes' = writes
        /\ UNCHANGED <<servers, proc, conn, allLeft, allKeys,
                       nextId, seen>>

\* the write of the initialized notification has ended
startServerFinish(ok) ==
  /\ budget' = budget
  /\ micro = << >>
  /\ \E w \in writes :
       /\ w.k = "start"
       /\ writes' = writes \ {w}
       /\ call' = NoCall
       /\ IF ok
          THEN /\ servers' = IF w.sid \in DOMAIN servers
                            THEN [servers EXCEPT ![w.sid].initialized = TRUE]
                            ELSE servers
               /\ ret' = [op |-> "start", sid |-> w.sid, outcome |-> "ok"]
               /\ sent' = << >>
               /\ UNCHANGED <<pending, nextRid, micro, unhandled>>
          ELSE /\ StartCatch(w.sid, << >>)
               /\ servers' = servers
       /\ UNCHANGED <<proc, conn, allLeft, allKeys, nextId, seen>>

\* a stopServer that returns quietly when the session is not registered
stopServerSilent(s) ==
  /\ micro = << >>
  /\ budget > 0
  /\ budget' = budget - 1
  /\ call' = [op |-> "stop", sid |-> s, uri |-> "", language |-> "", command |-> ""]
  /\ IF s \notin DOMAIN servers
     THEN /\ ret' = [op |-> "stop", sid |-> s, outcome |-> "ok"]
          /\ sent' = << >>
          /\ UNCHANGED <<pending, nextRid, micro>>
     ELSE /\ StopPrefix(s, "call", << >>)
          /\ ret' = NoRet
  /\ UNCHANGED <<servers, proc, conn, writes, allLeft, allKeys,
                 nextId, unhandled, seen>>

\* the stop-session call
stopServer(s) ==
  /\ micro = << >>
  /\ budget > 0
  /\ budget' = budget - 1
  /\ call' = [op |-> "stop", sid |-> s, uri |-> "", language |-> "", command |-> ""]
  /\ IF s \notin DOMAIN servers
     THEN /\ ret' = [op |-> "stop", sid |-> s, outcome |-> "SessionNotFound"]
          /\ sent' = << >>
          /\ UNCHANGED <<pending, nextRid, micro>>
     ELSE /\ StopPrefix(s, "call", << >>)
          /\ ret' = NoRet
  /\ UNCHANGED <<servers, proc, conn, writes, allLeft, allKeys,
                 nextId, unhandled, seen>>

\* the shutdown request has settled
stopServerContinue ==
  /\ budget' = budget
  /\ micro # << >>
  /\ Head(micro).k = "stop"
  /\ LET m == Head(micro)
         s == m.sid
     IN /\ call' = NoCall
        /\ IF m.ok /\ CanSend(s)
           THEN /\ sent' = <<Msg(s, "exit", 0, "", 0, "")>>
                /\ writes' = writes \cup {[k |-> "stop", sid |-> s, parent |-> m.parent]}
                /\ micro' = Tail(micro)
                /\ ret' = NoRet
                /\ UNCHANGED <<servers, proc, conn, pending, allLeft, allKeys>>
           ELSE /\ ShutdownFailed(s, m.parent, Tail(micro))
                /\ sent' = << >>
                /\ writes' = writes
        /\ UNCHANGED <<nextRid, nextId, unhandled, seen>>

\* the write of the exit notification has ended, well or not
stopServerFinish ==
  /\ budget' = budget
  /\ micro = << >>
  /\ \E w \in writes :
       /\ w.k = "stop"
       /\ writes' = writes \ {w}
       /\ Teardown(w.sid, w.parent, << >>)
  /\ call' = NoCall
  /\ sent' = << >>
  /\ UNCHANGED <<nextRid, nextId, unhandled, seen>>

\* the stop-all call: stopServer runs up to its first await for every key,
\* in the order of the map, and the call awaits all of them
stopAllServers ==
  /\ micro = << >>
  /\ budget > 0
  /\ budget' = budget - 1
  /\ allLeft = {}
  /\ call' = [op |-> "stopAll", sid |-> 0, uri |-> "", language |-> "", command |-> ""]
  /\ LET keys == DOMAIN servers
         sending == {s \in keys : CanSend(s)}
         throwing == Ascending(keys \ sending)
     IN /\ pending' = [s \in Ids |->
                         IF s \in sending
                         THEN pending[s] \cup {Request(nextRid[s], "shutdown", "stop", "all")}
                         ELSE pending[s]]
        /\ nextRid' = [s \in Ids |-> IF s \in sending THEN nextRid[s] + 1 ELSE nextRid[s]]
        /\ sent' = [i \in 1..Len(Ascending(sending)) |->
                      Msg(Ascending(sending)[i], "shutdown",
                          nextRid[Ascending(sending)[i]], "", 0, "")]
        /\ micro' = [i \in 1..Len(throwing) |->
                       [k |-> "stop", sid |-> throwing[i], parent |-> "all",
                        op |-> "shutdown", ok |-> FALSE]]
        /\ allLeft' = keys
        /\ allKeys' = keys
        /\ ret' = IF keys = {}
                  THEN [op |-> "stopAll", sid |-> 0, outcome |-> "ok"]
                  ELSE NoRet
  /\ UNCHANGED <<servers, proc, conn, writes, nextId, unhandled, seen>>

\* ----------------------------------------------------------------- SIGINT
\* a handler that calls stopAllServers and exits without awaiting it
processExitEarly ==
  /\ micro = << >>
  /\ call.op = "stopAll" \/ ret.op = "stopAll"
  /\ ret' = [op |-> "exit", sid |-> 0, outcome |-> "0"]
  /\ call' = NoCall
  /\ sent' = << >>
  /\ UNCHANGED <<servers, proc, conn, pending, nextRid, writes, micro, allLeft,
                 allKeys, nextId, budget, unhandled, seen>>

\* the end of the SIGINT handler, which began with the stopAllServers call:
\* stopAllServers has returned, this.server.close() is awaited, and
\* process.exit(0) ends the manager
processExit ==
  /\ micro = << >>
  /\ ret.op = "stopAll"
  /\ ret' = [op |-> "exit", sid |-> 0, outcome |-> "0"]
  /\ call' = NoCall
  /\ sent' = << >>
  /\ UNCHANGED <<servers, proc, conn, pending, nextRid, writes, micro, allLeft,
                 allKeys, nextId, budget, unhandled, seen>>

\* ------------------------------------------------ intelligence operations
\* getCompletions, getHover, goToDefinition, findReferences, renameSymbol,
\* formatDocument, getDocumentSymbols: op is the method the operation sends
requestOperation(s, op, u) ==
  /\ micro = << >>
  /\ budget > 0
  /\ budget' = budget - 1
  /\ call' = [op |-> op, sid |-> s, uri |-> u, language |-> "", command |-> ""]
  /\ IF s \notin DOMAIN servers
     THEN /\ ret' = [op |-> op, sid |-> s, outcome |-> "SessionNotFound"]
          /\ sent' = << >>
          /\ UNCHANGED <<pending, nextRid>>
     ELSE /\ IF CanSend(s)
             THEN /\ Cardinality({r \in pending[s] : r.k = "intel"}) < MaxPending
                  /\ pending' = [pending EXCEPT ![s] =
                                   @ \cup {Request(nextRid[s], op, "intel", "call")}]
                  /\ nextRid' = [nextRid EXCEPT ![s] = @ + 1]
                  /\ sent' = <<Msg(s, op, nextRid[s], u, 0, "")>>
                  /\ ret' = NoRet
             ELSE /\ ret' = [op |-> op, sid |-> s, outcome |-> "null"]
                  /\ sent' = << >>
                  /\ UNCHANGED <<pending, nextRid>>
  /\ UNCHANGED <<servers, proc, conn, writes, micro, allLeft, allKeys,
                 nextId, unhandled, seen>>

\* an operation with no try/catch: the rejection reaches the caller
requestOperationContinueThrow ==
  /\ budget' = budget
  /\ micro # << >>
  /\ Head(micro).k = "intel"
  /\ LET m == Head(micro)
     IN ret' = [op |-> m.op, sid |-> m.sid,
                outcome |-> IF m.ok THEN "result" ELSE "OperationFailed"]
  /\ micro' = Tail(micro)
  /\ call' = NoCall
  /\ sent' = << >>
  /\ UNCHANGED <<servers, proc, conn, pending, nextRid, writes, allLeft,
                 allKeys, nextId, unhandled, seen>>

\* an operation that applies the edits of a result to the documents of the
\* session that are open
requestOperationContinueApply ==
  /\ budget' = budget
  /\ micro # << >>
  /\ Head(micro).k = "intel"
  /\ LET m == Head(micro)
     IN /\ ret' = [op |-> m.op, sid |-> m.sid,
                   outcome |-> IF m.ok THEN "result" ELSE "null"]
        /\ servers' =
             IF m.ok /\ m.sid \in DOMAIN servers
             THEN [servers EXCEPT ![m.sid].documents =
                     [u \in Uris |->
                        IF @[u] = NoDoc THEN NoDoc
                        ELSE [@[u] EXCEPT !.version = @ + 1, !.text = "edited"]]]
             ELSE servers
  /\ micro' = Tail(micro)
  /\ call' = NoCall
  /\ sent' = << >>
  /\ UNCHANGED <<proc, conn, pending, nextRid, writes, allLeft,
                 allKeys, nextId, unhandled, seen>>

\* the request of an intelligence operation has settled
requestOperationContinue ==
  /\ budget' = budget
  /\ micro # << >>
  /\ Head(micro).k = "intel"
  /\ LET m == Head(micro)
     IN ret' = [op |-> m.op, sid |-> m.sid,
                outcome |-> IF m.ok THEN "result" ELSE "null"]
  /\ micro' = Tail(micro)
  /\ call' = NoCall
  /\ sent' = << >>
  /\ UNCHANGED <<servers, proc, conn, pending, nextRid, writes, allLeft,
                 allKeys, nextId, unhandled, seen>>

\* a getDiagnostics with no lookup of the session
getDiagnosticsUnchecked(s, u) ==
  /\ micro = << >>
  /\ budget > 0
  /\ budget' = budget - 1
  /\ call' = [op |-> "diagnostics", sid |-> s, uri |-> u, language |-> "",
              command |-> ""]
  /\ ret' = [op |-> "diagnostics", sid |-> s, outcome |-> "empty"]
  /\ sent' = << >>
  /\ UNCHANGED <<servers, proc, conn, pending, nextRid, writes, micro,
                 allLeft, allKeys, nextId, unhandled, seen>>

getDiagnostics(s, u) ==
  /\ micro = << >>
  /\ budget > 0
  /\ budget' = budget - 1
  /\ call' = [op |-> "diagnostics", sid |-> s, uri |-> u, language |-> "",
              command |-> ""]
  /\ ret' = [op |-> "diagnostics", sid |-> s,
             outcome |-> IF s \notin DOMAIN servers THEN "SessionNotFound" ELSE "empty"]
  /\ sent' = << >>
  /\ UNCHANGED <<servers, proc, conn, pending, nextRid, writes, micro,
                 allLeft, allKeys, nextId, unhandled, seen>>

\* -------------------------------------------------------------- documents
DocCall(op, s, u) ==
  [op |-> op, sid |-> s, uri |-> u, language |-> "", command |-> ""]

\* an update that keeps the version
NewVersionStale(document) == document.version

\* the version updateDocument gives the document
NewVersion(document) == document.version + 1

\* no check that the document is open
IsOpenAlways(document) == TRUE

\* server.documents.get(fileUri) found a document
IsOpen(document) == document # NoDoc

\* a notification that is handed to the connection after the operation has
\* yielded: the step of the call sends nothing
NotifyLater(s, method, u, version, text, op) ==
  /\ sent' = << >>
  /\ seen' = seen
  /\ ret' = NoRet

\* a lookup in one map of documents that all the sessions share
documentsGetShared(s, u) ==
  IF \E t \in DOMAIN servers : servers[t].documents[u] # NoDoc
  THEN servers[CHOOSE t \in DOMAIN servers :
                 servers[t].documents[u] # NoDoc].documents[u]
  ELSE NoDoc

\* server.documents.get(fileUri), NoDoc for undefined
documentsGet(s, u) == servers[s].documents[u]

\* a send that waits for the subprocess to acknowledge the notification: the
\* message is written and the operation does not return in this step
NotifyAcknowledged(s, method, u, version, text, op) ==
  IF CanSend(s)
  THEN /\ sent' = <<Msg(s, method, 0, u, version, text)>>
       /\ seen' = [seen EXCEPT ![s][u] = version]
       /\ ret' = NoRet
  ELSE /\ sent' = << >>
       /\ seen' = seen
       /\ ret' = [op |-> op, sid |-> s, outcome |-> "ConnectionClosed"]

\* sendNotification of a document notification: it is written, and the
\* subprocess learns the version, or it throws on a connection not listening
Notify(s, method, u, version, text, op) ==
  IF CanSend(s)
  THEN /\ sent' = <<Msg(s, method, 0, u, version, text)>>
       /\ seen' = [seen EXCEPT ![s][u] = version]
       /\ ret' = [op |-> op, sid |-> s, outcome |-> "ok"]
  ELSE /\ sent' = << >>
       /\ seen' = seen
       /\ ret' = [op |-> op, sid |-> s, outcome |-> "ConnectionClosed"]

\* an open that refuses a document that is open
openDocumentOnce(s, u, content, languageId) ==
  /\ micro = << >>
  /\ budget > 0
  /\ budget' = budget - 1
  /\ call' = [op |-> "open", sid |-> s, uri |-> u, language |-> languageId,
              command |-> "", text |-> content]
  /\ IF s \notin DOMAIN servers
     THEN /\ ret' = [op |-> "open", sid |-> s, outcome |-> "SessionNotFound"]
          /\ sent' = << >>
          /\ UNCHANGED <<servers, seen>>
     ELSE IF IsOpen(servers[s].documents[u])
          THEN /\ ret' = [op |-> "open", sid |-> s, outcome |-> "DocumentAlreadyOpen"]
               /\ sent' = << >>
               /\ UNCHANGED <<servers, seen>>
          ELSE /\ servers' = [servers EXCEPT ![s].documents[u] =
                             [version |-> 1, languageId |-> languageId, text |-> content]]
               /\ Notify(s, "textDocument/didOpen", u, 1, content, "open")
  /\ UNCHANGED <<proc, conn, pending, nextRid, writes, micro, allLeft,
                 allKeys, nextId, unhandled>>

openDocument(s, u, content, languageId) ==
  /\ micro = << >>
  /\ budget > 0
  /\ budget' = budget - 1
  /\ call' = [op |-> "open", sid |-> s, uri |-> u, language |-> languageId,
              command |-> "", text |-> content]
  /\ IF s \notin DOMAIN servers
     THEN /\ ret' = [op |-> "open", sid |-> s, outcome |-> "SessionNotFound"]
          /\ sent' = << >>
          /\ UNCHANGED <<servers, seen>>
     ELSE /\ servers' = [servers EXCEPT ![s].documents[u] =
                        [version |-> 1, languageId |-> languageId, text |-> content]]
          /\ Notify(s, "textDocument/didOpen", u, 1, content, "open")
  /\ UNCHANGED <<proc, conn, pending, nextRid, writes, micro, allLeft,
                 allKeys, nextId, unhandled>>

\* an update that reads the document, yields, and writes what it computed
\* from that read when another update has written meanwhile: the version of
\* the other update is given again and its content is kept
updateDocumentInterleaved(s, u, content) ==
  /\ micro = << >>
  /\ budget > 0
  /\ budget' = budget - 1
  /\ call' = [op |-> "update", sid |-> s, uri |-> u, language |-> "",
              command |-> "", text |-> content]
  /\ IF s \notin DOMAIN servers
     THEN /\ ret' = [op |-> "update", sid |-> s, outcome |-> "SessionNotFound"]
          /\ sent' = << >>
          /\ UNCHANGED <<servers, seen>>
     ELSE LET document == documentsGet(s, u)
          IN IF ~IsOpen(document)
             THEN /\ ret' = [op |-> "update", sid |-> s, outcome |-> "DocumentNotOpen"]
                  /\ sent' = << >>
                  /\ UNCHANGED <<servers, seen>>
             ELSE IF document.version = 1
             THEN /\ servers' = [servers EXCEPT ![s].documents[u] =
                                [version |-> 2,
                                 languageId |-> document.languageId,
                                 text |-> content]]
                  /\ Notify(s, "textDocument/didChange", u, 2, content, "update")
             ELSE /\ servers' = servers
                  /\ Notify(s, "textDocument/didChange", u, document.version,
                            content, "update")
  /\ UNCHANGED <<proc, conn, pending, nextRid, writes, micro, allLeft,
                 allKeys, nextId, unhandled>>

updateDocument(s, u, content) ==
  /\ micro = << >>
  /\ budget > 0
  /\ budget' = budget - 1
  /\ call' = [op |-> "update", sid |-> s, uri |-> u, language |-> "",
              command |-> "", text |-> content]
  /\ IF s \notin DOMAIN servers
     THEN /\ ret' = [op |-> "update", sid |-> s, outcome |-> "SessionNotFound"]
          /\ sent' = << >>
          /\ UNCHANGED <<servers, seen>>
     ELSE LET document == documentsGet(s, u)
              newVersion == NewVersion(document)
          IN IF ~IsOpen(document)
             THEN /\ ret' = [op |-> "update", sid |-> s, outcome |-> "DocumentNotOpen"]
                  /\ sent' = << >>
                  /\ UNCHANGED <<servers, seen>>
             ELSE /\ servers' = [servers EXCEPT ![s].documents[u] =
                                [version |-> newVersion,
                                 languageId |-> document.languageId,
                                 text |-> content]]
                  /\ Notify(s, "textDocument/didChange", u, newVersion, content, "update")
  /\ UNCHANGED <<proc, conn, pending, nextRid, writes, micro, allLeft,
                 allKeys, nextId, unhandled>>

closeDocument(s, u) ==
  /\ micro = << >>
  /\ budget > 0
  /\ budget' = budget - 1
  /\ call' = DocCall("close", s, u)
  /\ IF s \notin DOMAIN servers
     THEN /\ ret' = [op |-> "close", sid |-> s, outcome |-> "SessionNotFound"]
          /\ sent' = << >>
          /\ UNCHANGED <<servers, seen>>
     ELSE IF ~IsOpen(documentsGet(s, u))
          THEN /\ ret' = [op |-> "close", sid |-> s, outcome |-> "DocumentNotOpen"]
               /\ sent' = << >>
               /\ UNCHANGED <<servers, seen>>
          ELSE /\ servers' = [servers EXCEPT ![s].documents[u] = NoDoc]
               /\ Notify(s, "textDocument/didClose", u, 0, "", "close")
  /\ UNCHANGED <<proc, conn, pending, nextRid, writes, micro, allLeft,
                 allKeys, nextId, unhandled>>

\* ------------------------------------------- the subprocess and its streams
\* the subprocess answers request r with a result (ok) or with an error; the
\* error also stands for a request whose write failed
respond(s, r, ok) ==
  /\ budget' = budget
  /\ micro = << >>
  /\ r \in pending[s]
  /\ CanSend(s)
  /\ ok => proc[s] \in {"running", "killed"}
  /\ pending' = [pending EXCEPT ![s] = @ \ {r}]
  /\ micro' = <<Continuation(s, r, ok)>>
  /\ call' = NoCall
  /\ ret' = NoRet
  /\ sent' = << >>
  /\ UNCHANGED <<servers, proc, conn, nextRid, writes, allLeft, allKeys,
                 nextId, unhandled, seen>>

\* an exit handler that sweeps the registry: it removes every session whose
\* subprocess is not running
onExitSweep(s) ==
  /\ budget' = budget
  /\ micro = << >>
  /\ proc[s] \in {"running", "killed"}
  /\ proc' = [proc EXCEPT ![s] = "exited"]
  /\ servers' = [x \in {t \in DOMAIN servers : t # s /\ proc[t] = "running"}
                   |-> servers[x]]
  /\ seen' = [seen EXCEPT ![s] = [u \in Uris |-> 0]]
  /\ call' = NoCall
  /\ ret' = NoRet
  /\ sent' = << >>
  /\ UNCHANGED <<conn, pending, nextRid, writes, micro, allLeft, allKeys,
                 nextId, unhandled>>

\* serverProcess.on('exit'): the subprocess has exited, by itself or killed
onExit(s) ==
  /\ budget' = budget
  /\ micro = << >>
  /\ proc[s] \in {"running", "killed"}
  /\ proc' = [proc EXCEPT ![s] = "exited"]
  /\ servers' = Delete(s)
  /\ seen' = [seen EXCEPT ![s] = [u \in Uris |-> 0]]
  /\ call' = NoCall
  /\ ret' = NoRet
  /\ sent' = << >>
  /\ UNCHANGED <<conn, pending, nextRid, writes, micro, allLeft, allKeys,
                 nextId, unhandled>>

\* serverProcess.on('error'): the subprocess could not be spawned
onError(s) ==
  /\ budget' = budget
  /\ micro = << >>
  /\ proc[s] = "spawnfail"
  /\ proc' = [proc EXCEPT ![s] = "failed"]
  /\ servers' = Delete(s)
  /\ call' = NoCall
  /\ ret' = NoRet
  /\ sent' = << >>
  /\ UNCHANGED <<conn, pending, nextRid, writes, micro, allLeft, allKeys,
                 nextId, unhandled, seen>>

\* the streams of the subprocess close: the connection is closed, and the
\* requests pending on it stay pending
streamClose(s) ==
  /\ budget' = budget
  /\ micro = << >>
  /\ conn[s] = "listening"
  /\ conn' = [conn EXCEPT ![s] = "closed"]
  /\ call' = NoCall
  /\ ret' = NoRet
  /\ sent' = << >>
  /\ UNCHANGED <<servers, proc, pending, nextRid, writes, micro, allLeft,
                 allKeys, nextId, unhandled, seen>>

\* ---------------------------------------------------------- find-references
\* the includeDeclaration argument of a lsp_find_references call: not given,
\* or given with a value
FlagInputs ==
  {[given |-> FALSE, value |-> FALSE], [given |-> TRUE, value |-> TRUE],
   [given |-> TRUE, value |-> FALSE]}

\* a || d: the default also replaces a false that was given
LogicalOr(a, d) == IF a.given /\ a.value THEN a.value ELSE d

\* a ?? d: the default replaces only an argument that was not given
NullishCoalesce(a, d) == IF a.given THEN a.value ELSE d

\* the textDocument/references request
ReferencesMsg(s, rid, uri, includeDeclaration) ==
  [to |-> s, method |-> "textDocument/references", rid |-> rid, uri |-> uri,
   version |-> 0, text |-> "", includeDeclaration |-> includeDeclaration]

\* handleFindReferences and findReferences: the find-references call
handleFindReferences(s, u, arg) ==
  /\ micro = << >>
  /\ budget > 0
  /\ budget' = budget - 1
  /\ call' = [op |-> "textDocument/references", sid |-> s, uri |-> u,
              language |-> "", command |-> "", includeDeclaration |-> arg]
  /\ LET includeDeclaration == NullishCoalesce(arg, TRUE)
     IN IF s \notin DOMAIN servers
        THEN /\ ret' = [op |-> "textDocument/references", sid |-> s,
                        outcome |-> "SessionNotFound"]
             /\ sent' = << >>
             /\ UNCHANGED <<pending, nextRid>>
        ELSE IF CanSend(s)
             THEN /\ Cardinality({r \in pending[s] : r.k = "intel"}) < MaxPending
                  /\ pending' = [pending EXCEPT ![s] = @ \cup
                        {Request(nextRid[s], "textDocument/references", "intel", "call")}]
                  /\ nextRid' = [nextRid EXCEPT ![s] = @ + 1]
                  /\ sent' = <<ReferencesMsg(s, nextRid[s], u, includeDeclaration)>>
                  /\ ret' = NoRet
             ELSE /\ ret' = [op |-> "textDocument/references", sid |-> s,
                             outcome |-> "null"]
                  /\ sent' = << >>
                  /\ UNCHANGED <<pending, nextRid>>
  /\ UNCHANGED <<servers, proc, conn, writes, micro, allLeft, allKeys,
                 nextId, unhandled, seen>>

\* the subprocess pushes a textDocument/publishDiagnostics notification with
\* a list of diagnostics for u that is not empty; the connection has no
\* handler for it
publishDiagnostics(s, u) ==
  /\ budget' = budget
  /\ micro = << >>
  /\ CanSend(s)
  /\ proc[s] = "running"
  /\ call' = [op |-> "textDocument/publishDiagnostics", sid |-> s, uri |-> u,
              language |-> "", command |-> ""]
  /\ ret' = NoRet
  /\ sent' = << >>
  /\ UNCHANGED <<servers, proc, conn, pending, nextRid, writes, micro,
                 allLeft, allKeys, nextId, unhandled, seen>>

\* ------------------------------------------------------------ list-sessions
\* an entry that shows every session as not initialized
ListEntryStale(s) ==
  [id |-> s, language |-> servers[s].language,
   workspaceUri |-> servers[s].workspaceUri, initialized |-> FALSE]

\* the entry listServers maps a session to
ListEntry(s) ==
  [id |-> s, language |-> servers[s].language,
   workspaceUri |-> servers[s].workspaceUri,
   initialized |-> servers[s].initialized]

\* listServers(): Array.from(this.servers.values()).map(...), in the order of
\* insertion, which is the order of the identifiers
listServers ==
  LET keys == Ascending(DOMAIN servers)
  IN [i \in 1..Len(keys) |-> ListEntry(keys[i])]

\* handleListServers: the list-sessions call; it returns listServers
handleListServers ==
  /\ micro = << >>
  /\ budget > 0
  /\ budget' = budget - 1
  /\ call' = [op |-> "list", sid |-> 0, uri |-> "", language |-> "", command |-> ""]
  /\ ret' = [op |-> "list", sid |-> 0, outcome |-> "ok"]
  /\ sent' = << >>
  /\ UNCHANGED <<servers, proc, conn, pending, nextRid, writes, micro,
                 allLeft, allKeys, nextId, unhandled, seen>>

\* ---------------------------------------------------------- specification
\* the life of the sessions: start-session, stop-session, stop-all, and the
\* events of the subprocesses
Next ==
  \/ \E l \in LanguageInputs, w \in Workspaces, c \in CommandInputs :
       startServer(l, w, c, NoArgs, TRUE)
  \/ startServerContinue
  \/ \E ok \in BOOLEAN : startServerFinish(ok)
  \/ \E s \in Ids : stopServer(s)
  \/ stopServerContinue
  \/ stopServerFinish
  \/ stopAllServers
  \/ \E s \in Ids : \E r \in pending[s], ok \in BOOLEAN : respond(s, r, ok)
  \/ \E s \in Ids : onExit(s)
  \/ \E s \in Ids : streamClose(s)

Spec == Init /\ [][Next]_vars

\* The documents of one session.  The state after MaxSessions calls of
\* start-session have returned and all sessions but the last were stopped.
Live == MaxSessions

DocInit ==
  /\ servers = [s \in {Live} |->
                  [language |-> "typescript", workspaceUri |-> "file:///tmp/proj",
                   command |-> languageServerCommands["typescript"],
                   args |-> languageServerArgs["typescript"],
                   initialized |-> TRUE, documents |-> [u \in Uris |-> NoDoc]]]
  /\ proc = [s \in Ids |-> IF s = Live THEN "running" ELSE "exited"]
  /\ conn = [s \in Ids |-> IF s = Live THEN "listening" ELSE "disposed"]
  /\ pending = [s \in Ids |-> {}]
  /\ nextRid = [s \in Ids |-> IF s = Live THEN 1 ELSE 2]
  /\ writes = {}
  /\ micro = << >>
  /\ allLeft = {}
  /\ allKeys = {}
  /\ nextId = MaxSessions + 1
  /\ budget = MaxDocCalls
  /\ unhandled = FALSE
  /\ seen = [s \in Ids |-> [u \in Uris |-> 0]]
  /\ call = NoCall
  /\ ret = NoRet
  /\ sent = << >>

\* the request operations callers issue on s: every one on a session that is
\* not registered, those of IntelInputs on a registered one
IssuedOps(s) == IF s \in DOMAIN servers THEN IntelInputs ELSE RequestOps

DocNext ==
  \/ \E s \in Ids, u \in Uris, c \in Contents, l \in LanguageIds :
       openDocument(s, u, c, l)
  \/ \E s \in Ids, u \in Uris, c \in Contents : updateDocument(s, u, c)
  \/ \E s \in Ids, u \in Uris : closeDocument(s, u)
  \/ \E s \in Ids, u \in Uris : getDiagnostics(s, u)
  \/ \E s \in Ids, u \in Uris : \E op \in IssuedOps(s) : requestOperation(s, op, u)
  \/ requestOperationContinue
  \/ \E s \in Ids : stopServer(s)
  \/ stopServerContinue
  \/ stopServerFinish
  \/ \E s \in Ids : \E r \in pending[s], ok \in BOOLEAN : respond(s, r, ok)
  \/ \E s \in Ids : onExit(s)
  \/ \E s \in Ids : streamClose(s)

DocSpec == DocInit /\ [][DocNext]_vars

\* The manager runs every continuation that is ready and every write ends, well
\* or not.  Nothing makes a subprocess answer a request or exit.
Fairness ==
  /\ WF_vars(startServerContinue)
  /\ WF_vars(\E ok \in BOOLEAN : startServerFinish(ok))
  /\ WF_vars(stopServerContinue)
  /\ WF_vars(stopServerFinish)
  /\ WF_vars(requestOperationContinue)

LiveSpec == Spec /\ Fairness

LiveDocSpec == DocSpec /\ Fairness

\* The handshake: sessions are started and listed, and documents are opened on
\* them, while their handshakes are in progress.
HandInit ==
  /\ servers = << >>
  /\ proc = [s \in Ids |-> "unspawned"]
  /\ conn = [s \in Ids |-> "none"]
  /\ pending = [s \in Ids |-> {}]
  /\ nextRid = [s \in Ids |-> 0]
  /\ writes = {}
  /\ micro = << >>
  /\ allLeft = {}
  /\ allKeys = {}
  /\ nextId = 1
  /\ budget = MaxHandCalls
  /\ unhandled = FALSE
  /\ seen = [s \in Ids |-> [u \in Uris |-> 0]]
  /\ call = NoCall
  /\ ret = NoRet
  /\ sent = << >>

HandNext ==
  \/ \E w \in Workspaces : startServer("typescript", w, NoCommand, NoArgs, TRUE)
  \/ startServerContinue
  \/ \E ok \in BOOLEAN : startServerFinish(ok)
  \/ stopServerContinue
  \/ stopServerFinish
  \/ handleListServers
  \/ \E s \in Ids, u \in Uris, l \in LanguageIds : openDocument(s, u, "x", l)
  \/ \E s \in Ids : \E r \in pending[s], ok \in BOOLEAN : respond(s, r, ok)
  \/ \E s \in Ids : onExit(s)
  \/ \E s \in Ids : streamClose(s)
  \/ \E s \in Ids : stopServer(s)

HandSpec == HandInit /\ [][HandNext]_vars

\* The requests of one session: completions and find-references in flight
\* together, the responses of the subprocess in any order, and its pushes of
\* diagnostics.
ReqInit ==
  /\ servers = [s \in {Live} |->
                  [language |-> "typescript", workspaceUri |-> "file:///tmp/proj",
                   command |-> languageServerCommands["typescript"],
                   args |-> languageServerArgs["typescript"],
                   initialized |-> TRUE, documents |-> [u \in Uris |-> NoDoc]]]
  /\ proc = [s \in Ids |-> IF s = Live THEN "running" ELSE "exited"]
  /\ conn = [s \in Ids |-> IF s = Live THEN "listening" ELSE "disposed"]
  /\ pending = [s \in Ids |-> {}]
  /\ nextRid = [s \in Ids |-> IF s = Live THEN 1 ELSE 2]
  /\ writes = {}
  /\ micro = << >>
  /\ allLeft = {}
  /\ allKeys = {}
  /\ nextId = MaxSessions + 1
  /\ budget = MaxReqCalls
  /\ unhandled = FALSE
  /\ seen = [s \in Ids |-> [u \in Uris |-> 0]]
  /\ call = NoCall
  /\ ret = NoRet
  /\ sent = << >>

ReqNext ==
  \/ \E s \in Ids, u \in Uris : \E op \in IntelInputs : requestOperation(s, op, u)
  \/ \E s \in Ids, u \in Uris, arg \in FlagInputs : handleFindReferences(s, u, arg)
  \/ requestOperationContinue
  \/ \E s \in Ids, u \in Uris : getDiagnostics(s, u)
  \/ \E s \in Ids, u \in Uris : publishDiagnostics(s, u)
  \/ \E s \in Ids : \E r \in pending[s], ok \in BOOLEAN : respond(s, r, ok)
  \/ \E s \in Ids : onExit(s)
  \/ \E s \in Ids : streamClose(s)

ReqSpec == ReqInit /\ [][ReqNext]_vars

\* The commands: sessions are started with and without a custom command and
\* custom arguments, for a language of the table and for one that is not in
\* it, and the spawn succeeds or fails.
CmdInit ==
  /\ servers = << >>
  /\ proc = [s \in Ids |-> "unspawned"]
  /\ conn = [s \in Ids |-> "none"]
  /\ pending = [s \in Ids |-> {}]
  /\ nextRid = [s \in Ids |-> 0]
  /\ writes = {}
  /\ micro = << >>
  /\ allLeft = {}
  /\ allKeys = {}
  /\ nextId = 1
  /\ budget = MaxCmdCalls
  /\ unhandled = FALSE
  /\ seen = [s \in Ids |-> [u \in Uris |-> 0]]
  /\ call = NoCall
  /\ ret = NoRet
  /\ sent = << >>

CmdNext ==
  \/ \E l \in LanguageInputs, w \in Workspaces, c \in CustomCommandInputs,
        a \in ArgsInputs, ok \in BOOLEAN : startServer(l, w, c, a, ok)
  \/ startServerContinue
  \/ \E ok \in BOOLEAN : startServerFinish(ok)
  \/ stopServerContinue
  \/ stopServerFinish
  \/ \E s \in Ids : \E r \in pending[s], ok \in BOOLEAN : respond(s, r, ok)
  \/ \E s \in Ids : onExit(s)
  \/ \E s \in Ids : onError(s)

CmdSpec == CmdInit /\ [][CmdNext]_vars

\* The synchronisation of one document of one live session: opens, also of a
\* document that is open, updates and closes, on a connection that can close.
SyncInit ==
  /\ servers = [s \in {Live} |->
                  [language |-> "typescript", workspaceUri |-> "file:///tmp/proj",
                   command |-> languageServerCommands["typescript"],
                   args |-> languageServerArgs["typescript"],
                   initialized |-> TRUE, documents |-> [u \in Uris |-> NoDoc]]]
  /\ proc = [s \in Ids |-> IF s = Live THEN "running" ELSE "exited"]
  /\ conn = [s \in Ids |-> IF s = Live THEN "listening" ELSE "disposed"]
  /\ pending = [s \in Ids |-> {}]
  /\ nextRid = [s \in Ids |-> IF s = Live THEN 1 ELSE 2]
  /\ writes = {}
  /\ micro = << >>
  /\ allLeft = {}
  /\ allKeys = {}
  /\ nextId = MaxSessions + 1
  /\ budget = MaxSyncCalls
  /\ unhandled = FALSE
  /\ seen = [s \in Ids |-> [u \in Uris |-> 0]]
  /\ call = NoCall
  /\ ret = NoRet
  /\ sent = << >>

SyncNext ==
  \/ \E u \in Uris, c \in Contents, l \in SyncLanguageIds :
       openDocument(Live, u, c, l)
  \/ \E u \in Uris, c \in Contents : updateDocument(Live, u, c)
  \/ \E u \in Uris : closeDocument(Live, u)
  \/ streamClose(Live)

SyncSpec == SyncInit /\ [][SyncNext]_vars

\* The removal of sessions: sessions are started, with a spawn that succeeds
\* or fails, and removed by stop-session, by stop-all, by the exit of the
\* subprocess and by its spawn error, and documents are opened on identifiers
\* that are registered and on identifiers that are not.
GoneInit ==
  /\ servers = << >>
  /\ proc = [s \in Ids |-> "unspawned"]
  /\ conn = [s \in Ids |-> "none"]
  /\ pending = [s \in Ids |-> {}]
  /\ nextRid = [s \in Ids |-> 0]
  /\ writes = {}
  /\ micro = << >>
  /\ allLeft = {}
  /\ allKeys = {}
  /\ nextId = 1
  /\ budget = MaxGoneCalls
  /\ unhandled = FALSE
  /\ seen = [s \in Ids |-> [u \in Uris |-> 0]]
  /\ call = NoCall
  /\ ret = NoRet
  /\ sent = << >>

GoneNext ==
  \/ \E w \in Workspaces, ok \in BOOLEAN :
       startServer("typescript", w, NoCommand, NoArgs, ok)
  \/ startServerContinue
  \/ \E ok \in BOOLEAN : startServerFinish(ok)
  \/ \E s \in Ids : stopServer(s)
  \/ stopServerContinue
  \/ stopServerFinish
  \/ stopAllServers
  \/ \E s \in Ids, u \in Uris : openDocument(s, u, "x", "typescript")
  \/ \E s \in Ids : \E r \in pending[s], ok \in BOOLEAN : respond(s, r, ok)
  \/ \E s \in Ids : onExit(s)
  \/ \E s \in Ids : onError(s)

GoneSpec == GoneInit /\ [][GoneNext]_vars

\* The edits: the seven request operations, rename and format among them,
\* and get-diagnostics calls, on a session with a document that is opened and
\* updated meanwhile.
EditInit ==
  /\ servers = [s \in {Live} |->
                  [language |-> "typescript", workspaceUri |-> "file:///tmp/proj",
                   command |-> languageServerCommands["typescript"],
                   args |-> languageServerArgs["typescript"],
                   initialized |-> TRUE, documents |-> [u \in Uris |-> NoDoc]]]
  /\ proc = [s \in Ids |-> IF s = Live THEN "running" ELSE "exited"]
  /\ conn = [s \in Ids |-> IF s = Live THEN "listening" ELSE "disposed"]
  /\ pending = [s \in Ids |-> {}]
  /\ nextRid = [s \in Ids |-> IF s = Live THEN 1 ELSE 2]
  /\ writes = {}
  /\ micro = << >>
  /\ allLeft = {}
  /\ allKeys = {}
  /\ nextId = MaxSessions + 1
  /\ budget = MaxEditCalls
  /\ unhandled = FALSE
  /\ seen = [s \in Ids |-> [u \in Uris |-> 0]]
  /\ call = NoCall
  /\ ret = NoRet
  /\ sent = << >>

EditNext ==
  \/ \E u \in Uris, c \in Contents : openDocument(Live, u, c, "typescript")
  \/ \E u \in Uris, c \in Contents : updateDocument(Live, u, c)
  \/ \E u \in Uris : \E op \in RequestOps : requestOperation(Live, op, u)
  \/ requestOperationContinue
  \/ \E u \in Uris : getDiagnostics(Live, u)
  \/ \E r \in pending[Live], ok \in BOOLEAN : respond(Live, r, ok)
  \/ streamClose(Live)

EditSpec == EditInit /\ [][EditNext]_vars

\* The documents of several sessions: every identifier has a live session,
\* as after MaxSessions start-session calls have returned, and documents are
\* opened, updated and closed on all of them.
TwoInit ==
  /\ servers = [s \in Ids |->
                  [language |-> "typescript", workspaceUri |-> "file:///tmp/proj",
                   command |-> languageServerCommands["typescript"],
                   args |-> languageServerArgs["typescript"],
                   initialized |-> TRUE, documents |-> [u \in Uris |-> NoDoc]]]
  /\ proc = [s \in Ids |-> "running"]
  /\ conn = [s \in Ids |-> "listening"]
  /\ pending = [s \in Ids |-> {}]
  /\ nextRid = [s \in Ids |-> 1]
  /\ writes = {}
  /\ micro = << >>
  /\ allLeft = {}
  /\ allKeys = {}
  /\ nextId = MaxSessions + 1
  /\ budget = MaxTwoCalls
  /\ unhandled = FALSE
  /\ seen = [s \in Ids |-> [u \in Uris |-> 0]]
  /\ call = NoCall
  /\ ret = NoRet
  /\ sent = << >>

TwoNext ==
  \/ \E s \in Ids, u \in Uris, c \in Contents, l \in LanguageIds :
       openDocument(s, u, c, l)
  \/ \E s \in Ids, u \in Uris, c \in Contents : updateDocument(s, u, c)
  \/ \E s \in Ids, u \in Uris : closeDocument(s, u)

TwoSpec == TwoInit /\ [][TwoNext]_vars

\* SIGINT: sessions are started, the signal arrives (the handler calls
\* stopAllServers), and the manager exits at the end of the handler; nothing
\* happens in the manager after process.exit.
SigInit ==
  /\ servers = << >>
  /\ proc = [s \in Ids |-> "unspawned"]
  /\ conn = [s \in Ids |-> "none"]
  /\ pending = [s \in Ids |-> {}]
  /\ nextRid = [s \in Ids |-> 0]
  /\ writes = {}
  /\ micro = << >>
  /\ allLeft = {}
  /\ allKeys = {}
  /\ nextId = 1
  /\ budget = MaxSigCalls
  /\ unhandled = FALSE
  /\ seen = [s \in Ids |-> [u \in Uris |-> 0]]
  /\ call = NoCall
  /\ ret = NoRet
  /\ sent = << >>

\* process.exit has not been called
managerRuns == ret.op # "exit"

SigNext ==
  \/ managerRuns /\ \E w \in Workspaces :
                      startServer("typescript", w, NoCommand, NoArgs, TRUE)
  \/ managerRuns /\ startServerContinue
  \/ managerRuns /\ \E ok \in BOOLEAN : startServerFinish(ok)
  \/ managerRuns /\ stopAllServers
  \/ managerRuns /\ stopServerContinue
  \/ managerRuns /\ stopServerFinish
  \/ managerRuns /\ processExit
  \/ managerRuns /\ \E s \in Ids : \E r \in pending[s], ok \in BOOLEAN :
                      respond(s, r, ok)
  \/ managerRuns /\ \E s \in Ids : onExit(s)
  \/ managerRuns /\ \E s \in Ids : streamClose(s)

SigSpec == SigInit /\ [][SigNext]_vars

\* ----------------------------------------------------------------- claims
Registered == DOMAIN servers

NotFound(c) == [op |-> c.op, sid |-> c.sid, outcome |-> "SessionNotFound"]

\* C1: on a registered session whose connection is open, didOpen carries
\* version 1, every didChange carries the version the subprocess was last told
\* plus 1 (so the k-th after the open carries 1+k), and an update or a close of
\* a document the subprocess was told is closed, or was never told of, fails
\* with DocumentNotOpen and sends nothing, until the document is opened again.
C1_Step ==
  /\ \A i \in DOMAIN sent' :
       LET m == sent'[i]
       IN /\ m.method = "textDocument/didOpen" => m.version = 1
          /\ m.method = "textDocument/didChange" =>
               /\ seen[m.to][m.uri] >= 1
               /\ m.version = seen[m.to][m.uri] + 1
  /\ \A s \in Registered, u \in Uris :
       (call'.op \in {"update", "close"} /\ call'.sid = s /\ call'.uri = u /\ CanSend(s))
       => IF seen[s][u] = 0
          THEN ret'.outcome = "DocumentNotOpen" /\ sent' = << >> /\ seen' = seen
          ELSE /\ ret'.outcome = "ok"
               /\ Len(sent') = 1
               /\ seen'[s][u] = IF call'.op = "update" THEN seen[s][u] + 1 ELSE 0
               /\ sent'[1].version = seen'[s][u]

C1_VersionsRiseByOne == [][C1_Step]_vars

\* the second update of an open document has been notified
C1_Witness ==
  /\ Len(sent) = 1
  /\ sent[1].method = "textDocument/didChange"
  /\ sent[1].version = 3

\* C2: update-document and close-document on a URI with no entry in the
\* document map of the session fail with DocumentNotOpen, send nothing and
\* leave the map as it was.
C2_Step ==
  \A s \in Registered, u \in Uris :
    (call'.op \in {"update", "close"} /\ call'.sid = s /\ call'.uri = u
       /\ servers[s].documents[u] = NoDoc)
    => /\ ret' = [op |-> call'.op, sid |-> s, outcome |-> "DocumentNotOpen"]
       /\ sent' = << >>
       /\ servers' = servers
       /\ seen' = seen

C2_NotOpenRejected == [][C2_Step]_vars

\* a close was refused for a URI with no entry in the map of a registered
\* session, after two calls or more
C2_Witness ==
  /\ ret.op = "close"
  /\ ret.outcome = "DocumentNotOpen"
  /\ ret.sid \in Registered
  /\ servers[ret.sid].documents[call.uri] = NoDoc
  /\ budget <= MaxDocCalls - 3

\* C3: a document operation or an intelligence operation on an identifier that
\* is not registered fails with SessionNotFound, sends nothing, and changes
\* neither the registry nor any task in flight.
C3_Step ==
  (call'.op \in DocOps \cup RequestOps \cup {"diagnostics"}
     /\ call'.sid \notin Registered)
  => /\ ret' = NotFound(call')
     /\ sent' = << >>
     /\ UNCHANGED <<servers, proc, conn, pending, nextRid, writes, micro, allLeft,
                    allKeys, nextId, unhandled, seen>>

C3_UnknownSessionRejected == [][C3_Step]_vars

\* a hover on an unknown session was refused while a request of the live
\* session is in flight
C3_Witness ==
  /\ ret.op = "textDocument/hover"
  /\ ret.outcome = "SessionNotFound"
  /\ \E s \in Registered : pending[s] # {}

\* C4: start-session with a language that has no entry in the table, and no
\* custom command, fails with UnsupportedLanguage; no process is spawned, no
\* session is registered and nothing is sent.
C4_Step ==
  (call'.op = "start" /\ call'.command = NoCommand
     /\ call'.language \notin DOMAIN languageServerCommands)
  => /\ ret'.op = "start"
     /\ ret'.outcome = "UnsupportedLanguage"
     /\ sent' = << >>
     /\ UNCHANGED <<servers, proc, conn, pending, nextId>>

C4_UnsupportedLanguage == [][C4_Step]_vars

C4_Witness ==
  /\ call.op = "start"
  /\ call.language = "cobol"
  /\ ret.outcome = "UnsupportedLanguage"

\* C5: a start-session that is accepted registers an identifier that was never
\* used before beside the sessions already registered, and a stop-session call
\* on s, or the removal of s from the registry (by the end of stopServer or by
\* the exit of its subprocess), leaves every other registered session
\* registered, with its record, its pending requests, its connection and its
\* process as they were.
OthersUntouched(s) ==
  \A t \in Registered \ {s} :
    /\ t \in DOMAIN servers'
    /\ servers'[t] = servers[t]
    /\ pending'[t] = pending[t]
    /\ conn'[t] = conn[t]
    /\ proc'[t] = proc[t]

C5_Step ==
  /\ (call'.op = "start" /\ ret'.outcome # "UnsupportedLanguage")
     => \E k \in Ids \ Registered :
          /\ proc[k] = "unspawned"
          /\ DOMAIN servers' = Registered \cup {k}
          /\ OthersUntouched(k)
  /\ call'.op = "stop" => OthersUntouched(call'.sid)
  /\ \A s \in Registered : s \notin DOMAIN servers' => OthersUntouched(s)

C5_SessionsIndependent == [][C5_Step]_vars

\* a stop-session has returned while another session, started with the same
\* language and workspace, is registered with a request pending
C5_Witness ==
  /\ ret.op = "stop"
  /\ ret.outcome = "ok"
  /\ \E t \in Registered : t # ret.sid /\ pending[t] # {}

\* C6: after stop-session on a session with an intelligence request in
\* flight, that request is eventually settled for its caller.
C6_PendingSettledByStop ==
  \A s \in Ids :
    (call.op = "stop" /\ call.sid = s /\ s \in Registered
       /\ \E r \in pending[s] : r.k = "intel")
    ~> (/\ \A r \in pending[s] : r.k # "intel"
        /\ \A i \in DOMAIN micro : ~(micro[i].k = "intel" /\ micro[i].sid = s))

\* C7: once the subprocess of a session has exited, the session leaves the
\* registry and no request stays pending on its connection.
C7_ExitFailsPending ==
  \A s \in Ids :
    (proc[s] = "exited") ~> (s \notin Registered /\ pending[s] = {})

\* C8: a stop-session call on a registered session eventually has the process
\* killed and the session out of the registry.
C8_StopTerminates ==
  \A s \in Ids :
    (call.op = "stop" /\ call.sid = s /\ s \in Registered)
    ~> (s \notin Registered /\ proc[s] \in {"killed", "exited"})

\* C9: stop-session on an identifier that is not registered fails with
\* SessionNotFound, kills no process, sends nothing and leaves the registry
\* and the connections as they were.
C9_Step ==
  (call'.op = "stop" /\ call'.sid \notin Registered)
  => /\ ret' = NotFound(call')
     /\ sent' = << >>
     /\ UNCHANGED <<servers, proc, conn, pending, writes, micro>>

C9_StopUnknownRejected == [][C9_Step]_vars

\* stop-session was refused for a session whose subprocess had exited
C9_Witness ==
  /\ ret.op = "stop"
  /\ ret.outcome = "SessionNotFound"
  /\ proc[ret.sid] = "exited"

\* C10: stop-all starts stopServer for every session registered at the call (a
\* shutdown request is sent, or the catch block is queued when the connection
\* is not open); a failed shutdown of one session removes that session and
\* leaves the other stops in flight; stop-all never returns an error, and when
\* it returns none of the sessions it mapped over is registered.
C10_Step ==
  /\ call'.op = "stopAll"
     => /\ allKeys' = Registered
        /\ \A s \in Registered :
             IF CanSend(s)
             THEN \E i \in DOMAIN sent' :
                    sent'[i].to = s /\ sent'[i].method = "shutdown"
             ELSE \E i \in DOMAIN micro' :
                    micro'[i].k = "stop" /\ micro'[i].sid = s
  /\ (micro # << >> /\ Head(micro).k = "stop" /\ Head(micro).parent = "all"
        /\ ~Head(micro).ok)
     => /\ Head(micro).sid \notin DOMAIN servers'
        /\ allLeft' = allLeft \ {Head(micro).sid}
        /\ allLeft' # {} => ret' = NoRet
  /\ ret'.op = "stopAll"
     => /\ ret'.outcome = "ok"
        /\ allKeys' \cap DOMAIN servers' = {}
        /\ allLeft' = {}

C10_StopAllSweeps == [][C10_Step]_vars

\* stop-all has returned after mapping over two sessions
C10_Witness ==
  /\ ret.op = "stopAll"
  /\ Cardinality(allKeys) = 2


\* C11: in the step in which start-session returns an identifier, listServers
\* holds an entry with that identifier and initialized true; in the step in
\* which stop-session returns for an identifier, listServers holds no entry
\* with it.
C11_Step ==
  /\ (ret'.op = "start" /\ ret'.outcome = "ok")
     => \E i \in DOMAIN listServers' :
          listServers'[i].id = ret'.sid /\ listServers'[i].initialized
  /\ (ret'.op = "stop" /\ ret'.outcome = "ok")
     => \A i \in DOMAIN listServers' : listServers'[i].id # ret'.sid

C11_ListedAfterStart == [][C11_Step]_vars


\* C12: list-sessions returns one entry for each registered session and no
\* other, with the identifier, the language, the workspace root and the
\* initialized flag the session has at the call; it returns the empty array
\* when the registry is empty, and the call changes nothing.
C12_Step ==
  call'.op = "list"
  => /\ ret' = [op |-> "list", sid |-> 0, outcome |-> "ok"]
     /\ Len(listServers) = Cardinality(Registered)
     /\ \A s \in Registered :
          \E i \in DOMAIN listServers :
            listServers[i] = [id |-> s, language |-> servers[s].language,
                              workspaceUri |-> servers[s].workspaceUri,
                              initialized |-> servers[s].initialized]
     /\ Registered = {} => listServers = << >>
     /\ sent' = << >>
     /\ UNCHANGED <<servers, proc, conn, pending, nextRid, writes, micro,
                    allLeft, allKeys, nextId, unhandled, seen>>

C12_ListIsSnapshot == [][C12_Step]_vars

\* list-sessions was called with two sessions registered, the first
\* initialized and the second in its handshake
C12_Witness ==
  /\ call.op = "list"
  /\ Len(listServers) = 2
  /\ listServers[1].initialized
  /\ ~listServers[2].initialized


\* C13: a session that is registered and not initialized is eventually
\* initialized or out of the registry, whether the subprocess rejects the
\* initialize request or never answers it.
C13_InitFailureTearsDown ==
  \A s \in Ids :
    (s \in Registered /\ ~servers[s].initialized)
    ~> (s \notin Registered \/ servers[s].initialized)


\* C14: a session enters the registry with initialized false; the flag turns
\* true only in the step in which the write of the initialized notification
\* ends well, after the initialize request was answered, and start-session
\* returns; once true it stays true as long as the session is registered.
C14_Step ==
  \A s \in Ids :
    /\ (s \notin Registered /\ s \in DOMAIN servers') => ~servers'[s].initialized
    /\ (s \in Registered /\ s \in DOMAIN servers')
       => /\ servers[s].initialized => servers'[s].initialized
          /\ (~servers[s].initialized /\ servers'[s].initialized)
             => /\ [k |-> "start", sid |-> s, parent |-> "none"] \in writes
                /\ [k |-> "start", sid |-> s, parent |-> "none"] \notin writes'
                /\ \A r \in pending[s] : r.method # "initialize"
                /\ ret' = [op |-> "start", sid |-> s, outcome |-> "ok"]

C14_FlagMonotonic == [][C14_Step]_vars

\* a session is initialized, and still so at a list-sessions call that
\* follows, while another session is in its handshake
C14_Witness ==
  /\ call.op = "list"
  /\ \E s, t \in Registered : servers[s].initialized /\ ~servers[t].initialized


\* C15: the step of start-session that sends the initialize request has
\* already put the session in the registry, not initialized; as long as the
\* initialize request of a registered session is pending, listServers shows
\* the session with initialized false; and the exit of a subprocess leaves its
\* session out of the registry.
InHandshake(s) == \E r \in pending[s] : r.method = "initialize"

C15_Step ==
  /\ (call'.op = "start" /\ ret'.outcome # "UnsupportedLanguage")
     => \E k \in DOMAIN servers' \ Registered :
          /\ ~servers'[k].initialized
          /\ \E i \in DOMAIN sent' :
               sent'[i].to = k /\ sent'[i].method = "initialize"
          /\ \E r \in pending'[k] : r.method = "initialize"
  /\ \A s \in Registered :
       InHandshake(s)
       => \E i \in DOMAIN listServers :
            listServers[i].id = s /\ ~listServers[i].initialized
  /\ \A s \in Ids :
       (proc[s] # "exited" /\ proc'[s] = "exited") => s \notin DOMAIN servers'

C15_RegisteredBeforeHandshake == [][C15_Step]_vars

\* a subprocess has exited with its initialize request unanswered, and its
\* session is out of the registry
C15_Witness ==
  \E s \in Ids :
    /\ proc[s] = "exited"
    /\ InHandshake(s)
    /\ s \notin Registered


\* C16: a session that is registered and not initialized is sent no message
\* but initialize, initialized, shutdown and exit, and no document or
\* intelligence operation on it is accepted.
C16_Step ==
  /\ \A i \in DOMAIN sent' :
       LET m == sent'[i]
       IN (m.to \in Registered /\ ~servers[m.to].initialized)
          => m.method \in {"initialize", "initialized", "shutdown", "exit"}
  /\ (call'.op \in DocOps \cup RequestOps \cup {"diagnostics"}
        /\ call'.sid \in Registered /\ ~servers[call'.sid].initialized)
     => ret'.outcome \notin {"ok", "result", "empty"}

C16_NothingBeforeHandshake == [][C16_Step]_vars


\* C17: when the request of an intelligence operation is answered with an
\* error, that request alone leaves the pending set, the operation returns
\* null to its caller, and the registry (the initialized flag and the
\* documents of the session included), the connection, the process and the
\* other requests in flight stay as they were.
C17_Step ==
  /\ (micro = << >> /\ micro' # << >> /\ Head(micro').k = "intel"
        /\ ~Head(micro').ok)
     => LET s == Head(micro').sid
        IN /\ Cardinality(pending[s] \ pending'[s]) = 1
           /\ pending'[s] \subseteq pending[s]
           /\ UNCHANGED <<servers, conn, proc>>
  /\ (micro # << >> /\ Head(micro).k = "intel" /\ ~Head(micro).ok)
     => /\ ret' = [op |-> Head(micro).op, sid |-> Head(micro).sid,
                   outcome |-> "null"]
        /\ UNCHANGED <<servers, conn, proc, pending>>

C17_FailureStaysLocal == [][C17_Step]_vars

\* an operation has returned null while the session is registered and
\* another request is in flight on it
C17_Witness ==
  /\ ret.outcome = "null"
  /\ ret.sid \in Registered
  /\ servers[ret.sid].initialized
  /\ \E r \in pending[ret.sid] : r.k = "intel"


\* C18: a get-diagnostics call for a registered session and a URI, handled
\* right after the subprocess pushed diagnostics for that URI, returns those
\* diagnostics and not the empty array.
C18_Step ==
  (/\ call.op = "textDocument/publishDiagnostics"
   /\ call'.op = "diagnostics"
   /\ call'.sid = call.sid
   /\ call'.uri = call.uri
   /\ call'.sid \in Registered)
  => ret'.outcome # "empty"

C18_LatestDiagnosticsServed == [][C18_Step]_vars


\* C19: a response settles one pending request, the one it answers, and the
\* operation that sent that request returns the outcome of that response (a
\* result, or null for an error); the other requests stay pending, and a
\* request sent later can be completed before one sent earlier.
C19_Step ==
  /\ (micro = << >> /\ micro' # << >> /\ Head(micro').k = "intel")
     => LET c == Head(micro')
        IN /\ Len(micro') = 1
           /\ \E r \in pending[c.sid] :
                /\ pending' = [pending EXCEPT ![c.sid] = @ \ {r}]
                /\ r.method = c.op
                /\ r.k = "intel"
  /\ (micro # << >> /\ Head(micro).k = "intel")
     => /\ ret' = [op |-> Head(micro).op, sid |-> Head(micro).sid,
                   outcome |-> IF Head(micro).ok THEN "result" ELSE "null"]
        /\ pending' = pending
        /\ micro' = Tail(micro)

C19_ResponsesMatchRequests == [][C19_Step]_vars

\* find-references, sent second, has returned its result while the
\* completion request sent first is still pending
C19_Witness ==
  /\ ret = [op |-> "textDocument/references", sid |-> Live, outcome |-> "result"]
  /\ nextRid[Live] = 3
  /\ Request(1, "textDocument/completion", "intel", "call") \in pending[Live]


\* C20: the textDocument/references request of a find-references call carries
\* includeDeclaration = true when the caller gave no flag, and the value the
\* caller gave, true or false, when it gave one.
C20_Step ==
  (call'.op = "textDocument/references" /\ call'.sid \in Registered
     /\ CanSend(call'.sid))
  => /\ Len(sent') = 1
     /\ sent'[1].method = "textDocument/references"
     /\ sent'[1].to = call'.sid
     /\ sent'[1].includeDeclaration =
          IF call'.includeDeclaration.given
          THEN call'.includeDeclaration.value
          ELSE TRUE

C20_IncludeDeclarationDefault == [][C20_Step]_vars

\* a find-references call with no flag has sent includeDeclaration = true
\* in the second request of the session
C20_Witness ==
  /\ call.op = "textDocument/references"
  /\ ~call.includeDeclaration.given
  /\ Len(sent) = 1
  /\ sent[1].includeDeclaration
  /\ nextRid[Live] = 3


\* C21: no failure path leaves a rejected promise without a handler: the
\* stopServer call in the catch block of startServer, which is not awaited,
\* never rejects.
C21_NoUnhandledRejection == unhandled = FALSE


\* C22 as stated: a start-session call that passes a custom command, whatever
\* the string, never fails with UnsupportedLanguage and registers a session
\* spawned with that command and the arguments passed (none when omitted).
C22_OriginalStep ==
  (call'.op = "start" /\ call'.command # NoCommand)
  => /\ ret'.outcome # "UnsupportedLanguage"
     /\ \E k \in DOMAIN servers' \ Registered :
          /\ servers'[k].command = call'.command
          /\ servers'[k].args =
               IF call'.args.given THEN call'.args.value ELSE << >>

C22_AnyCustomCommandSpawned == [][C22_OriginalStep]_vars

\* C22: a start-session call that passes a custom command which is not the
\* empty string never fails with UnsupportedLanguage, whatever the language
\* name, and registers a session spawned with that command and the arguments
\* passed (none when omitted); a call that passes no custom command, or the
\* empty string, registers a session spawned with the command and the
\* arguments of the table entry of the language, the arguments passed being
\* ignored, and fails with UnsupportedLanguage when the table has no entry.
C22_Step ==
  call'.op = "start"
  => IF call'.command \notin {NoCommand, ""}
     THEN /\ ret'.outcome # "UnsupportedLanguage"
          /\ \E k \in DOMAIN servers' \ Registered :
               /\ servers'[k].command = call'.command
               /\ servers'[k].args =
                    IF call'.args.given THEN call'.args.value ELSE << >>
     ELSE IF call'.language \in DOMAIN languageServerCommands
          THEN \E k \in DOMAIN servers' \ Registered :
                 /\ servers'[k].command = languageServerCommands[call'.language]
                 /\ servers'[k].args = languageServerArgs[call'.language]
          ELSE /\ ret'.outcome = "UnsupportedLanguage"
               /\ servers' = servers

C22_CustomCommandSpawned == [][C22_Step]_vars

\* a session of a language that is not in the table runs the custom command
\* with no arguments, and its handshake is done
C22_Witness ==
  \E s \in Registered :
    /\ servers[s].language = "cobol"
    /\ servers[s].command = "/path/to/custom-lsp"
    /\ servers[s].args = << >>
    /\ servers[s].initialized
    /\ ret = [op |-> "start", sid |-> s, outcome |-> "ok"]


\* C23: an open-document call for a URI that has an entry in the document map
\* of a registered session whose connection is open returns without error;
\* after it the map holds for that URI the content and the language id of the
\* call at version 1, the entries of the other URIs are as they were, and the
\* step has sent one didOpen notification with version 1 and that content.
C23_Step ==
  \A s \in Registered, u \in Uris :
    (call'.op = "open" /\ call'.sid = s /\ call'.uri = u
       /\ servers[s].documents[u] # NoDoc /\ CanSend(s))
    => /\ ret' = [op |-> "open", sid |-> s, outcome |-> "ok"]
       /\ servers'[s].documents[u] =
            [version |-> 1, languageId |-> call'.language, text |-> call'.text]
       /\ \A v \in Uris \ {u} : servers'[s].documents[v] = servers[s].documents[v]
       /\ sent' = <<Msg(s, "textDocument/didOpen", 0, u, 1, call'.text)>>

C23_LastOpenWins == [][C23_Step]_vars

\* a document is open as typescript at version 3 on an open connection, the
\* manager is idle and a call can still be made: the open-document call of
\* the claim can be issued
C23_Witness ==
  /\ servers[Live].documents["file:///a.ts"] =
       [version |-> 3, languageId |-> "typescript", text |-> "x"]
  /\ CanSend(Live)
  /\ micro = << >>
  /\ budget > 0


\* C24: a didOpen or didChange notification for a document the subprocess
\* holds open (told of by an earlier notification, with no didClose since)
\* carries a version greater than the one the subprocess was last told.
C24_Step ==
  \A i \in DOMAIN sent' :
    LET m == sent'[i]
    IN (m.method \in {"textDocument/didOpen", "textDocument/didChange"}
          /\ seen[m.to][m.uri] >= 1)
       => m.version > seen[m.to][m.uri]

C24_VersionsStrictlyIncrease == [][C24_Step]_vars


\* C25: a document operation hands its notification to the connection in the
\* step of its call, before it yields, so that the notifications of calls
\* issued one after the other, waited for or not, enter the connection in the
\* order of the calls: an open on an open connection sends didOpen, an update
\* or a close of a document of the map sends didChange or didClose, no step
\* sends a document notification of another call, and didChange and didClose
\* are sent only for a document the subprocess was told is open.
DocMethod(op) ==
  IF op = "open" THEN "textDocument/didOpen"
  ELSE IF op = "update" THEN "textDocument/didChange"
  ELSE "textDocument/didClose"

C25_Step ==
  /\ \A s \in Registered, u \in Uris :
       (call'.op \in DocOps /\ call'.sid = s /\ call'.uri = u /\ CanSend(s)
          /\ (call'.op = "open" \/ servers[s].documents[u] # NoDoc))
       => /\ Len(sent') = 1
          /\ sent'[1].to = s
          /\ sent'[1].uri = u
          /\ sent'[1].method = DocMethod(call'.op)
  /\ \A i \in DOMAIN sent' :
       LET m == sent'[i]
       IN m.method \in {DocMethod(op) : op \in DocOps}
          => /\ call'.op \in DocOps
             /\ m.method = DocMethod(call'.op)
             /\ m.to = call'.sid
             /\ m.uri = call'.uri
             /\ m.method # "textDocument/didOpen" => seen[m.to][m.uri] >= 1

C25_NotificationsInIssueOrder == [][C25_Step]_vars

\* the third call of the run, the second update of the document, has sent
\* the third notification, the didChange with version 3
C25_Witness ==
  /\ call.op = "update"
  /\ budget = MaxSyncCalls - 3
  /\ sent = <<Msg(Live, "textDocument/didChange", 0, "file:///a.ts", 3, "y")>>


\* C26: once the stream of a session has closed while its subprocess runs,
\* the session eventually leaves the registry and no request stays pending on
\* its connection.
C26_StreamCloseFailsPending ==
  \A s \in Ids :
    (conn[s] = "closed" /\ proc[s] = "running")
    ~> (s \notin Registered /\ pending[s] = {})


\* C27: an intelligence request sent on a registered session eventually
\* returns to its caller: it leaves the pending set and its continuation has
\* run, whether or not the subprocess answers it.
C27_IntelligenceReturns ==
  \A s \in Ids :
    (s \in Registered /\ \E r \in pending[s] : r.k = "intel")
    ~> (/\ \A r \in pending[s] : r.k # "intel"
        /\ \A i \in DOMAIN micro : ~(micro[i].k = "intel" /\ micro[i].sid = s))


\* C28: an identifier enters the registry only in the step of a start-session
\* call, it is then an identifier that was never issued before, and its
\* document map is empty; an identifier that was issued and is out of the
\* registry stays out of it, and a stop-session or a document operation on it
\* fails with SessionNotFound and sends nothing.
Issued == {s \in Ids : proc[s] # "unspawned"}

C28_Step ==
  /\ \A s \in DOMAIN servers' \ Registered :
       /\ call'.op = "start"
       /\ s \notin Issued
       /\ \A t \in Issued : t < s
       /\ \A u \in Uris : servers'[s].documents[u] = NoDoc
  /\ \A s \in Issued \ Registered :
       /\ s \notin DOMAIN servers'
       /\ (call'.op \in DocOps \cup {"stop"} /\ call'.sid = s)
          => ret' = NotFound(call') /\ sent' = << >>

C28_RemovedNeverReturns == [][C28_Step]_vars

\* an open-document call on an identifier whose session a spawn error
\* removed has been refused, while a session with a later identifier is
\* registered
C28_Witness ==
  /\ ret.op = "open"
  /\ ret.outcome = "SessionNotFound"
  /\ proc[ret.sid] = "failed"
  /\ \E t \in Registered : t > ret.sid


\* C29: the requests of a connection that has closed or was disposed are
\* eventually all retired: none stays pending on it.
C29_NonePendingOnceGone ==
  \A s \in Ids :
    (conn[s] \in {"closed", "disposed"}) ~> (pending[s] = {})


\* C30: the step of the call of an intelligence operation (one of the seven
\* request operations, or get-diagnostics) and the step in which a request
\* operation returns, with the result of the subprocess or with null, leave
\* the registry and every document map as they were and tell the subprocess
\* of no change of a document.
C30_Step ==
  /\ call'.op \in RequestOps \cup {"diagnostics"}
     => /\ servers' = servers
        /\ seen' = seen
        /\ \A i \in DOMAIN sent' : sent'[i].method = call'.op
  /\ (micro # << >> /\ Head(micro).k = "intel")
     => /\ ret' = [op |-> Head(micro).op, sid |-> Head(micro).sid,
                   outcome |-> IF Head(micro).ok THEN "result" ELSE "null"]
        /\ servers' = servers
        /\ seen' = seen
        /\ sent' = << >>

C30_IntelligenceChangesNothing == [][C30_Step]_vars

\* a rename has returned its result while the document is in the map as it
\* was opened
C30_Witness ==
  /\ ret = [op |-> "textDocument/rename", sid |-> Live, outcome |-> "result"]
  /\ servers[Live].documents["file:///a.ts"] =
       [version |-> 1, languageId |-> "typescript", text |-> "x"]


\* C31: an open, an update or a close on session s leaves the record of every
\* other registered session, its document map and versions included, as it
\* was, sends nothing to another session and tells no other subprocess of a
\* version; and an update or a close on a session whose map has no entry for
\* the URI fails with DocumentNotOpen, whatever the maps of the other
\* sessions hold for that URI.
C31_Step ==
  \A s \in Ids :
    (call'.op \in DocOps /\ call'.sid = s)
    => /\ \A t \in Registered \ {s} :
            /\ t \in DOMAIN servers'
            /\ servers'[t] = servers[t]
            /\ seen'[t] = seen[t]
            /\ \A i \in DOMAIN sent' : sent'[i].to # t
       /\ \A u \in Uris :
            (s \in Registered /\ call'.op \in {"update", "close"}
               /\ call'.uri = u /\ servers[s].documents[u] = NoDoc)
            => /\ ret' = [op |-> call'.op, sid |-> s, outcome |-> "DocumentNotOpen"]
               /\ servers' = servers

C31_DocumentsPerSession == [][C31_Step]_vars

\* an update on a session was refused with DocumentNotOpen while the URI is
\* open, at version 2, in another session
C31_Witness ==
  /\ ret.op = "update"
  /\ ret.outcome = "DocumentNotOpen"
  /\ \E t \in Registered \ {ret.sid} :
       servers[t].documents[call.uri].version = 2


\* C32: an open, an update or a close returns to its caller in the step that
\* hands its notification to the connection, or that refuses the call: the
\* step leaves no request pending, no write awaited and no continuation
\* queued, so the return waits for nothing the subprocess sends.
C32_Step ==
  call'.op \in DocOps
  => /\ ret'.op = call'.op
     /\ ret'.sid = call'.sid
     /\ ret'.outcome # "none"
     /\ (call'.sid \in Registered /\ CanSend(call'.sid) /\ Len(sent') = 1)
        => ret'.outcome = "ok"
     /\ pending' = pending
     /\ writes' = writes
     /\ micro' = << >>

C33_ReturnedIdRegistered ==
  (ret.op = "start" /\ ret.outcome = "ok")
  => (ret.sid \in Registered /\ servers[ret.sid].initialized)


\* C34: an exit notification is sent only in the step that continues a
\* stopServer whose shutdown request was answered with a result, and to the
\* session of that request; the step that continues a stopServer whose
\* shutdown request failed sends nothing, disposes the connection, kills the
\* process if it runs, removes the session, and, for a stop-session call,
\* returns without error.
C34_Step ==
  /\ \A i \in DOMAIN sent' :
       sent'[i].method = "exit"
       => /\ micro # << >>
          /\ Head(micro).k = "stop"
          /\ Head(micro).ok
          /\ Head(micro).sid = sent'[i].to
          /\ Len(sent') = 1
  /\ (micro # << >> /\ Head(micro).k = "stop" /\ ~Head(micro).ok)
     => LET s == Head(micro).sid
        IN /\ sent' = << >>
           /\ conn'[s] = "disposed"
           /\ pending'[s] = {}
           /\ proc'[s] # "running"
           /\ s \notin DOMAIN servers'
           /\ Head(micro).parent = "call"
              => ret' = [op |-> "stop", sid |-> s, outcome |-> "ok"]

C34_ExitAfterShutdown == [][C34_Step]_vars

\* the shutdown request of a stop-session call has failed, and the catch
\* block of stopServer is about to run for a session that is registered with
\* its process running
C34_Witness ==
  /\ micro # << >>
  /\ Head(micro) = [k |-> "stop", sid |-> 1, parent |-> "call",
                    op |-> "shutdown", ok |-> FALSE]
  /\ 1 \in Registered
  /\ proc[1] = "running"


\* C35: an open, an update or a close that returns an error to its caller
\* leaves the registry, and so the document map of the session, as it was.
C35_Step ==
  (call'.op \in DocOps /\ ret'.op = call'.op /\ ret'.outcome # "ok")
  => servers' = servers

C35_FailedOperationKeepsMap == [][C35_Step]_vars


\* C36: an update of a document of the map is one step, whatever other
\* updates were issued before it returned: it raises the version of the
\* entry by exactly one, puts the content of the call in the entry, keeps
\* the language id, and the didChange it sends on an open connection carries
\* that version and that content, so that no version is given twice and no
\* content is lost.
C36_Step ==
  \A s \in Registered, u \in Uris :
    (call'.op = "update" /\ call'.sid = s /\ call'.uri = u
       /\ servers[s].documents[u] # NoDoc)
    => LET old == servers[s].documents[u]
           new == servers'[s].documents[u]
       IN /\ new = [version |-> old.version + 1, languageId |-> old.languageId,
                    text |-> call'.text]
          /\ CanSend(s)
             => /\ ret' = [op |-> "update", sid |-> s, outcome |-> "ok"]
                /\ sent' = <<Msg(s, "textDocument/didChange", 0, u,
                                 old.version + 1, call'.text)>>

C36_UpdatesAtomic == [][C36_Step]_vars

\* three updates of a document have been accepted one after the other: the
\* entry is at version 4 with the content of the last one, which the
\* didChange with version 4 carried
C36_Witness ==
  /\ call.op = "update"
  /\ call.text = "y"
  /\ servers[Live].documents["file:///a.ts"] =
       [version |-> 4, languageId |-> "javascript", text |-> "y"]
  /\ sent = <<Msg(Live, "textDocument/didChange", 0, "file:///a.ts", 4, "y")>>


\* C37: the manager exits on SIGINT only in a step that follows the return
\* of stopAllServers, and then every session that was in the registry when
\* the handler called stopAllServers is out of the registry, its connection
\* disposed and its subprocess killed or gone.
C37_Step ==
  ret'.op = "exit"
  => /\ ret.op = "stopAll"
     /\ allLeft = {}
     /\ \A s \in allKeys :
          /\ proc[s] # "running"
          /\ s \notin Registered
          /\ conn[s] = "disposed"

C38_Step ==
  \A s \in Ids :
    ( /\ s \notin Registered
      /\ conn[s] = "disposed"
      /\ proc'[s] # proc[s]
      /\ proc'[s] \in {"exited", "failed"} )
    => /\ servers' = servers
       /\ OthersUntouched(s)
       /\ unhandled' = unhandled
       /\ micro' = micro
       /\ ret' = NoRet
       /\ sent' = << >>

C38_LateEventChangesNothing == [][C38_Step]_vars

\* stop-session has returned for a session whose subprocess was killed and
\* has not exited yet, so that its exit event arrives after the removal,
\* while another session is registered
C38_Witness ==
  /\ ret.op = "stop"
  /\ ret.outcome = "ok"
  /\ ret.sid \notin Registered
  /\ conn[ret.sid] = "disposed"
  /\ proc[ret.sid] = "killed"
  /\ micro = << >>
  /\ \E t \in Registered : t # ret.sid /\ proc[t] = "running"

====
